---------------------------- MODULE Spec2Model ----------------------------
(***************************************************************************)
(* A model of the chip8-emu repository.                                    *)
(*                                                                         *)
(*   - the Chip8 machine of src/vm.py: registers, stack, program counter   *)
(*     and the opcode handlers _instruction_*, reached through             *)
(*     _execute_instruction;                                               *)
(*   - the Timer thread of src/timer.py;                                   *)
(*   - the display side of the IOManager of src/iomanager.py;              *)
(*   - the MemoryBuffer of src/memorybuffer.py.                            *)
(*                                                                         *)
(* An instruction is the 4-character lowercase hexadecimal string that     *)
(* binascii.hexlify (src/main.py:14) yields for one 16-bit word; it is     *)
(* modelled as a sequence of four one-character strings.  A Python         *)
(* exception leaving a handler is recorded in `fault`; the state changes   *)
(* made before the raise are kept, as in Python.                           *)
(***************************************************************************)
EXTENDS Integers, Sequences, FiniteSets, TLC

VARIABLES
    reg_v,          \* Chip8.reg_v: the 16 general registers
    reg_i,          \* Chip8.reg_i
    reg_pc,         \* Chip8.reg_pc
    reg_sp,         \* Chip8.reg_sp
    stack,          \* Chip8.stack: 16 slots
    memory,         \* Chip8.memory.memory: a string of '0'/'1' characters, held as
                    \* its length and the set of positions (from 0) that hold '1'
    fault,          \* the exception that left the last handler, or "none"
    steps,          \* instructions executed so far
    last,           \* the last executed instruction; the machine, the timer value and
                    \* the play_tone calls before it
    prev,           \* the instruction executed before `last`, likewise
    value,          \* Timer.value
    lock_owner,     \* holder of Timer._value_lock: "none", "timer", "cpu"
    timer_pc,       \* position of the timer thread inside Timer.run
    cpu_pc,         \* position of the interpreter thread inside set_value/get_value
    cpu_arg,        \* argument of the set_value call in progress
    cpu_ret,        \* value returned by the last get_value
    timer_tmp,      \* the value the timer thread loaded for value -= 1
    tick,           \* the last iteration of Timer.run: value before and after
    ticks,          \* iterations of Timer.run completed since the last set_value wrote,
                    \* counted up to MaxTimerValue
    display_buffer, \* IOManager.display_buffer: 32 rows of 64 cells holding 0 or 1,
                    \* held as the set of cells <<x, y>> that hold 1
    screen,         \* the asciimatics screen, 32 rows of 64 characters ' ' or 'X',
                    \* held as the set of cells <<x, y>> that show 'X'
    collision,      \* the value check_collission returned last
    drawn,          \* the draws made so far, most recent first (at most two)
    tones,          \* the arguments of the calls of IOManager.play_tone so far
    buffer_memory,  \* MemoryBuffer.memory of src/memorybuffer.py: a list of strings,
                    \* held as its length and the cells (from 0) that are not '0'
    buffer_call     \* the last call made on the MemoryBuffer and its outcome

cpu_vars == <<reg_v, reg_i, reg_pc, reg_sp, stack, memory, fault, steps, last, prev>>
timer_vars == <<value, lock_owner, timer_pc, cpu_pc, cpu_arg, cpu_ret, timer_tmp, tick, ticks>>
io_vars == <<display_buffer, screen, collision, drawn, tones>>
buffer_vars == <<buffer_memory, buffer_call>>
vars == <<reg_v, reg_i, reg_pc, reg_sp, stack, memory, fault, steps, last, prev,
          value, lock_owner, timer_pc, cpu_pc, cpu_arg, cpu_ret, timer_tmp, tick, ticks,
          display_buffer, screen, collision, drawn, tones, buffer_memory, buffer_call>>

---------------------------------------------------------------------------
(* Python values.                                                          *)

DecChars == {"0", "1", "2", "3", "4", "5", "6", "7", "8", "9"}

HexVal(c) ==
    CASE c = "0" -> 0 [] c = "1" -> 1 [] c = "2" -> 2 [] c = "3" -> 3
      [] c = "4" -> 4 [] c = "5" -> 5 [] c = "6" -> 6 [] c = "7" -> 7
      [] c = "8" -> 8 [] c = "9" -> 9 [] c = "a" -> 10 [] c = "b" -> 11
      [] c = "c" -> 12 [] c = "d" -> 13 [] c = "e" -> 14 [] c = "f" -> 15

\* int(s, 16) on a string of hexadecimal digits
RECURSIVE int_base16(_)
int_base16(s) ==
    IF s = <<>> THEN 0
    ELSE 16 * int_base16(SubSeq(s, 1, Len(s) - 1)) + HexVal(s[Len(s)])

\* int(s) raises ValueError on a string holding a character that is no decimal digit
int_raises(s) == \E k \in 1..Len(s) : s[k] \notin DecChars

\* int(s): the string read in base 10
RECURSIVE int(_)
int(s) ==
    IF s = <<>> THEN 0
    ELSE 10 * int(SubSeq(s, 1, Len(s) - 1)) + HexVal(s[Len(s)])

RECURSIVE Pow2(_)
Pow2(k) == IF k = 0 THEN 1 ELSE 2 * Pow2(k - 1)

Max(a, b) == IF a >= b THEN a ELSE b

(* A Python number held by a register: num / 2^exp in lowest terms, and    *)
(* whether its Python type is float (true division yields a float even     *)
(* when the quotient is whole; a float operand makes the result a float).  *)
RECURSIVE Num(_, _, _)
Num(n, e, f) ==
    IF e > 0 /\ n % 2 = 0 THEN Num(n \div 2, e - 1, f)
    ELSE [num |-> n, exp |-> e, float |-> f]

PyInt(k) == [num |-> k, exp |-> 0, float |-> FALSE]
Scaled(a, e) == a.num * Pow2(e - a.exp)
PyAdd(a, b) ==
    LET e == Max(a.exp, b.exp) IN Num(Scaled(a, e) + Scaled(b, e), e, a.float \/ b.float)
PySub(a, b) ==
    LET e == Max(a.exp, b.exp) IN Num(Scaled(a, e) - Scaled(b, e), e, a.float \/ b.float)
PyGt(a, b) == LET e == Max(a.exp, b.exp) IN Scaled(a, e) > Scaled(b, e)
PyEq(a, b) == a.num = b.num /\ a.exp = b.exp
PyTrueDiv2(a) == Num(a.num, a.exp + 1, TRUE)
PyMul2(a) == Num(a.num * 2, a.exp, a.float)
\* truth value of a % 2
PyOdd(a) == ~(a.exp = 0 /\ a.num % 2 = 0)

\* |, & and ^ on Python ints (two's complement, unbounded)
RECURSIVE BitAnd(_, _)
BitAnd(a, b) ==
    IF a = 0 \/ b = 0 THEN 0
    ELSE IF a = -1 THEN b
    ELSE IF b = -1 THEN a
    ELSE (a % 2) * (b % 2) + 2 * BitAnd(a \div 2, b \div 2)

RECURSIVE BitOr(_, _)
BitOr(a, b) ==
    IF a = 0 THEN b
    ELSE IF b = 0 THEN a
    ELSE IF a = -1 \/ b = -1 THEN -1
    ELSE Max(a % 2, b % 2) + 2 * BitOr(a \div 2, b \div 2)

RECURSIVE BitXor(_, _)
BitXor(a, b) ==
    IF a = 0 THEN b
    ELSE IF b = 0 THEN a
    ELSE IF a = -1 THEN -b - 1
    ELSE IF b = -1 THEN -a - 1
    ELSE ((a + b) % 2) + 2 * BitXor(a \div 2, b \div 2)

---------------------------------------------------------------------------
(* The Chip8 machine of src/vm.py.  A handler maps the machine before it   *)
(* to the machine after it.                                                *)

MemSize == 4096
StackSize == 16
NoFault == "none"

Machine ==
    [reg_v |-> reg_v, reg_i |-> reg_i, reg_pc |-> reg_pc, reg_sp |-> reg_sp,
     stack |-> stack, memory |-> memory, fault |-> fault]

raise(m, e) == [m EXCEPT !.fault = e]

move_to_next_instruction(m) == [m EXCEPT !.reg_pc = @ + 16]

\* push_to_stack moving the stack pointer before its test for the full stack
push_to_stack_late_test(m, v) ==
    IF m.reg_sp = 15 THEN raise([m EXCEPT !.reg_sp = @ + 1], "Full stack.")
    ELSE [m EXCEPT !.reg_sp = @ + 1, !.stack[m.reg_sp + 1] = v]

push_to_stack(m, v) ==
    IF m.reg_sp = 15 THEN raise(m, "Full stack.")
    ELSE [m EXCEPT !.reg_sp = @ + 1, !.stack[m.reg_sp + 1] = v]

\* pop_from_stack without its test for the empty stack
pop_from_stack_unchecked(m) ==
    [m |-> [m EXCEPT !.reg_sp = @ - 1], return_val |-> m.stack[m.reg_sp]]

\* the machine after the pop, and the value popped
pop_from_stack(m) ==
    IF m.reg_sp = 0 THEN [m |-> raise(m, "Empty Stack"), return_val |-> 0]
    ELSE [m |-> [m EXCEPT !.reg_sp = @ - 1], return_val |-> m.stack[m.reg_sp]]

\* no IOManager of the repository has a `video` attribute
_instruction_00E0(m) == raise(m, "AttributeError")

_instruction_00EE(m) ==
    LET r == pop_from_stack(m) IN
    IF r.m.fault # NoFault THEN r.m ELSE [r.m EXCEPT !.reg_pc = r.return_val]

_instruction_0nnn(m, addr) ==
    IF int_raises(addr) THEN raise(m, "ValueError") ELSE [m EXCEPT !.reg_pc = int(addr)]

_instruction_0(m, arg) ==
    IF arg = <<"0", "e", "0">> THEN _instruction_00E0(m)
    ELSE IF arg = <<"0", "e", "e">> THEN _instruction_00EE(m)
    ELSE _instruction_0nnn(m, arg)

_instruction_1(m, addr) ==
    IF int_raises(addr) THEN raise(m, "ValueError") ELSE [m EXCEPT !.reg_pc = int(addr)]

_instruction_2(m, addr) ==
    LET m1 == push_to_stack(m, m.reg_pc) IN
    IF m1.fault # NoFault THEN m1
    ELSE IF int_raises(addr) THEN raise(m1, "ValueError")
    ELSE [m1 EXCEPT !.reg_pc = int(addr)]

_instruction_3(m, arg) ==
    IF int_raises(<<arg[1]>>) \/ int_raises(Tail(arg)) THEN raise(m, "ValueError")
    ELSE IF PyEq(m.reg_v[int(<<arg[1]>>)], PyInt(int(Tail(arg))))
         THEN move_to_next_instruction(m) ELSE m

_instruction_4(m, arg) ==
    IF int_raises(<<arg[1]>>) \/ int_raises(Tail(arg)) THEN raise(m, "ValueError")
    ELSE IF ~PyEq(m.reg_v[int(<<arg[1]>>)], PyInt(int(Tail(arg))))
         THEN move_to_next_instruction(m) ELSE m

_instruction_5(m, arg) ==
    IF int_raises(<<arg[1]>>) \/ int_raises(<<arg[2]>>) THEN raise(m, "ValueError")
    ELSE IF PyEq(m.reg_v[int(<<arg[1]>>)], m.reg_v[int(<<arg[2]>>)])
         THEN move_to_next_instruction(m) ELSE m

_instruction_6(m, arg) ==
    IF int_raises(<<arg[1]>>) \/ int_raises(Tail(arg)) THEN raise(m, "ValueError")
    ELSE [m EXCEPT !.reg_v[int(<<arg[1]>>)] = PyInt(int(Tail(arg)))]

_instruction_7(m, arg) ==
    IF int_raises(<<arg[1]>>) \/ int_raises(Tail(arg)) THEN raise(m, "ValueError")
    ELSE [m EXCEPT !.reg_v[int(<<arg[1]>>)] = PyAdd(@, PyInt(int(Tail(arg))))]

_instruction_8xy0(m, x, y) == [m EXCEPT !.reg_v[x] = m.reg_v[y]]

_instruction_8xy1(m, x, y) ==
    IF m.reg_v[x].float \/ m.reg_v[y].float THEN raise(m, "TypeError")
    ELSE [m EXCEPT !.reg_v[x] = PyInt(BitOr(m.reg_v[x].num, m.reg_v[y].num))]

_instruction_8xy2(m, x, y) ==
    IF m.reg_v[x].float \/ m.reg_v[y].float THEN raise(m, "TypeError")
    ELSE [m EXCEPT !.reg_v[x] = PyInt(BitAnd(m.reg_v[x].num, m.reg_v[y].num))]

_instruction_8xy3(m, x, y) ==
    IF m.reg_v[x].float \/ m.reg_v[y].float THEN raise(m, "TypeError")
    ELSE [m EXCEPT !.reg_v[x] = PyInt(BitXor(m.reg_v[x].num, m.reg_v[y].num))]

_instruction_8xy4(m, x, y) ==
    LET m1 == [m EXCEPT !.reg_v[x] = PyAdd(m.reg_v[x], m.reg_v[y])] IN
    IF PyGt(m1.reg_v[x], PyInt(255))
    THEN [m1 EXCEPT !.reg_v[x] = PySub(@, PyInt(255)), !.reg_v[15] = PyInt(1)]
    ELSE [m1 EXCEPT !.reg_v[15] = PyInt(0)]

_instruction_8xy5(m, x, y) ==
    LET m1 == [m EXCEPT !.reg_v[15] =
                   IF PyGt(m.reg_v[x], m.reg_v[y]) THEN PyInt(1) ELSE PyInt(0)] IN
    [m1 EXCEPT !.reg_v[x] = PySub(m1.reg_v[x], m1.reg_v[y])]

_instruction_8xy6(m, x, y) ==
    LET m1 == [m EXCEPT !.reg_v[15] = IF PyOdd(m.reg_v[x]) THEN PyInt(1) ELSE PyInt(0)] IN
    [m1 EXCEPT !.reg_v[x] = PyTrueDiv2(m1.reg_v[x])]

_instruction_8xy7(m, x, y) ==
    LET m1 == [m EXCEPT !.reg_v[15] =
                   IF PyGt(m.reg_v[y], m.reg_v[x]) THEN PyInt(1) ELSE PyInt(0)] IN
    [m1 EXCEPT !.reg_v[x] = PySub(m1.reg_v[y], m1.reg_v[x])]

\* bin(x)[2] is the leading binary digit of the register index x: '1' unless x = 0
_instruction_8xyE(m, x, y) ==
    LET m1 == [m EXCEPT !.reg_v[15] = IF x # 0 THEN PyInt(1) ELSE PyInt(0)] IN
    [m1 EXCEPT !.reg_v[x] = PyMul2(m1.reg_v[x])]

_instruction_8(m, arg) ==
    LET x == int_base16(<<arg[1]>>)
        y == int_base16(<<arg[2]>>)
        instruction_nibble == arg[3]
    IN  CASE instruction_nibble = "0" -> _instruction_8xy0(m, x, y)
          [] instruction_nibble = "1" -> _instruction_8xy1(m, x, y)
          [] instruction_nibble = "2" -> _instruction_8xy2(m, x, y)
          [] instruction_nibble = "3" -> _instruction_8xy3(m, x, y)
          [] instruction_nibble = "4" -> _instruction_8xy4(m, x, y)
          [] instruction_nibble = "5" -> _instruction_8xy5(m, x, y)
          [] instruction_nibble = "6" -> _instruction_8xy6(m, x, y)
          [] instruction_nibble = "7" -> _instruction_8xy7(m, x, y)
          [] instruction_nibble = "e" -> _instruction_8xyE(m, x, y)
          [] OTHER -> raise(m, "KeyError")

\* compares the two operand characters, not the registers they name
_instruction_9(m, arg) ==
    IF arg[1] # arg[2] THEN move_to_next_instruction(m) ELSE m

_instruction_A(m, arg) == [m EXCEPT !.reg_i = PyInt(int_base16(arg))]

\* reads the undefined name addr
_instruction_B(m, arg) == raise(m, "NameError")

\* int(kk, 16) on the int kk
_instruction_C(m, arg) == raise(m, "TypeError")

\* MemoryBuffer has no read_bytes_from_addr (and Chip8 no scr)
_instruction_D(m, arg) == raise(m, "AttributeError")

\* the bound method called with self passed again
_instruction_Ex9E(m, x) == raise(m, "TypeError")

_instruction_ExA1(m, x) == raise(m, "TypeError")

\* the dispatch of the E family skipping a byte it does not recognise
_instruction_E_skipping(m, arg) ==
    LET x == int_base16(<<arg[1]>>)
        last_byte == Tail(arg)
    IN  IF last_byte = <<"9", "e">> THEN _instruction_Ex9E(m, x)
        ELSE IF last_byte = <<"a", "1">> THEN _instruction_ExA1(m, x)
        ELSE move_to_next_instruction(m)

_instruction_E(m, arg) ==
    LET x == int_base16(<<arg[1]>>)
        last_byte == Tail(arg)
    IN  IF last_byte = <<"9", "e">> THEN _instruction_Ex9E(m, x)
        ELSE IF last_byte = <<"a", "1">> THEN _instruction_ExA1(m, x)
        ELSE raise(m, "ExXX instruction not recognised.")

_instruction_Fx07(m, x) == m

\* blocking key read: not implemented (pass)
_instruction_Fx0A(m, x) == m

_instruction_Fx15(m, x) == m

_instruction_Fx18(m, x) == m

_instruction_Fx1E(m, x) == [m EXCEPT !.reg_i = PyAdd(@, m.reg_v[x])]

_instruction_Fx29(m, x) == m

\* hex_to_binary(data) calls int(data, 16) on an int before anything is stored
_instruction_Fx33(m, x) == raise(m, "TypeError")

\* range(x) is empty for x = 0; otherwise the first iteration reads the undefined name reg_i
_instruction_Fx55(m, x) == IF x = 0 THEN m ELSE raise(m, "NameError")

\* range(x) is empty for x = 0; otherwise the first iteration reads the undefined name memory
_instruction_Fx65(m, x) == IF x = 0 THEN m ELSE raise(m, "NameError")

\* the keys '0A' and '1E' are upper case and match no lowercase word
_instruction_F(m, arg) ==
    LET x == int_base16(<<arg[1]>>)
        last_byte == Tail(arg)
    IN  CASE last_byte = <<"0", "7">> -> _instruction_Fx07(m, x)
          [] last_byte = <<"0", "A">> -> _instruction_Fx0A(m, x)
          [] last_byte = <<"1", "5">> -> _instruction_Fx15(m, x)
          [] last_byte = <<"1", "8">> -> _instruction_Fx18(m, x)
          [] last_byte = <<"1", "E">> -> _instruction_Fx1E(m, x)
          [] last_byte = <<"2", "9">> -> _instruction_Fx29(m, x)
          [] last_byte = <<"3", "3">> -> _instruction_Fx33(m, x)
          [] last_byte = <<"5", "5">> -> _instruction_Fx55(m, x)
          [] last_byte = <<"6", "5">> -> _instruction_Fx65(m, x)
          [] OTHER -> raise(m, "KeyError")

_execute_instruction(m, instruction) ==
    LET c == instruction[1]
        arg == Tail(instruction)
    IN  CASE c = "0" -> _instruction_0(m, arg)
          [] c = "1" -> _instruction_1(m, arg)
          [] c = "2" -> _instruction_2(m, arg)
          [] c = "3" -> _instruction_3(m, arg)
          [] c = "4" -> _instruction_4(m, arg)
          [] c = "5" -> _instruction_5(m, arg)
          [] c = "6" -> _instruction_6(m, arg)
          [] c = "7" -> _instruction_7(m, arg)
          [] c = "8" -> _instruction_8(m, arg)
          [] c = "9" -> _instruction_9(m, arg)
          [] c = "a" -> _instruction_A(m, arg)
          [] c = "b" -> _instruction_B(m, arg)
          [] c = "c" -> _instruction_C(m, arg)
          [] c = "d" -> _instruction_D(m, arg)
          [] c = "e" -> _instruction_E(m, arg)
          [] c = "f" -> _instruction_F(m, arg)


(* One machine cycle.  IOManager.main_loop (src/iomanager.py:43) calls     *)
(* chip8.step(), which src/vm.py does not define: the cycle is taken from  *)
(* the specification (dispatch, then PC += 2 unless the operation is a     *)
(* jump, call or return).  The word at PC is an input of the cycle.        *)
SetsPC(instruction) ==
    \/ instruction[1] \in {"1", "2", "b"}
    \/ instruction[1] = "0" /\ Tail(instruction) # <<"0", "e", "0">>

step(m, instruction) ==
    LET m1 == _execute_instruction(m, instruction) IN
    IF m1.fault # NoFault \/ SetsPC(instruction) THEN m1
    ELSE [m1 EXCEPT !.reg_pc = @ + 2]

(* Chip8.__init__: the fields as the constructor assigns them; the memory   *)
(* is the string of 4096 '0' characters of MemoryBuffer.__init__.          *)
InitMachine ==
    /\ memory = [size |-> MemSize, ones |-> {}]
    /\ reg_v = [r \in 0..15 |-> PyInt(0)]
    /\ reg_i = PyInt(0)
    /\ reg_pc = 512
    /\ reg_sp = 0
    /\ stack = [k \in 0..(StackSize - 1) |-> 0]
    /\ fault = NoFault

NoInstruction == <<>>

---------------------------------------------------------------------------
(* The instruction words the model runs.                                   *)

W(a, b, c, d) == <<a, b, c, d>>

Words ==
    { W("0","0","e","0"), W("0","0","e","e"), W("0","1","2","3"),
      W("1","2","0","0"), W("1","2","a","0"),
      W("2","2","0","0"), W("2","2","a","0"),
      W("3","0","0","5"), W("4","0","0","5"), W("5","0","1","0"),
      W("6","0","0","5"), W("6","0","9","9"), W("6","1","1","2"), W("6","a","0","2"),
      W("7","0","9","9"),
      W("8","0","1","0"), W("8","0","1","1"), W("8","0","1","2"), W("8","0","1","3"),
      W("8","0","0","4"), W("8","0","1","4"), W("8","0","1","5"), W("8","0","f","5"),
      W("8","0","1","6"), W("8","0","1","7"), W("8","0","1","e"), W("8","0","1","8"),
      W("8","f","0","0"),
      W("9","0","1","0"), W("9","0","0","0"),
      W("a","2","f","0"), W("b","2","0","0"), W("c","0","f","f"), W("d","0","1","1"),
      W("e","0","9","e"), W("e","0","a","1"), W("e","0","0","0"),
      W("f","0","0","7"), W("f","0","1","5"), W("f","0","1","8"), W("f","0","2","9"),
      W("f","0","0","a"), W("f","0","1","e"), W("f","0","3","3"),
      W("f","0","5","5"), W("f","0","6","5"), W("f","1","5","5"), W("f","1","6","5"),
      W("f","0","f","f"), W("f","1","0","7") }

StackWords == { W("2","2","0","0"), W("2","0","a","0"), W("0","0","e","e") }

MaxSteps == 3
MaxCalls == 18

Step(instruction) ==
    /\ fault = NoFault
    /\ LET m2 == step(Machine, instruction) IN
        /\ reg_v' = m2.reg_v
        /\ reg_i' = m2.reg_i
        /\ reg_pc' = m2.reg_pc
        /\ reg_sp' = m2.reg_sp
        /\ stack' = m2.stack
        /\ memory' = m2.memory
        /\ fault' = m2.fault
    /\ steps' = steps + 1
    /\ last' = [instruction |-> instruction, before |-> Machine,
                value |-> value, tones |-> tones]
    /\ prev' = last
    /\ UNCHANGED <<timer_vars, io_vars, buffer_vars>>


InitHistory ==
    /\ steps = 0
    /\ last = [instruction |-> NoInstruction, before |-> Machine,
               value |-> value, tones |-> tones]
    /\ prev = [instruction |-> NoInstruction, before |-> Machine,
               value |-> value, tones |-> tones]

---------------------------------------------------------------------------
(* The Timer of src/timer.py: the thread running Timer.run, and the        *)
(* interpreter thread calling set_value and get_value.  A `with            *)
(* self._value_lock` block is entered when the lock is free and left by    *)
(* releasing it; value -= 1 is a load followed by a store.                 *)

MaxTimerValue == 3

InitTimer ==
    /\ value = 0
    /\ lock_owner = "none"
    /\ timer_pc = "acquire"
    /\ cpu_pc = "idle"
    /\ cpu_arg = 0
    /\ cpu_ret = 0
    /\ timer_tmp = 0
    /\ tick = [before |-> 0, after |-> 0, done |-> FALSE]
    /\ ticks = 0

\* the countdown without its test for zero
TickTestAlways(v) == TRUE

\* if self.value > 0
TickTest(v) == v > 0

\* the timer thread entering its block without waiting for the lock
RunAcquireNoLock ==
    /\ timer_pc = "acquire"
    /\ lock_owner' = "timer"
    /\ timer_pc' = "test"
    /\ tick' = [before |-> value, after |-> value, done |-> FALSE]
    /\ UNCHANGED <<value, cpu_pc, cpu_arg, cpu_ret, timer_tmp, ticks>>

RunAcquire ==
    /\ timer_pc = "acquire" /\ lock_owner = "none"
    /\ lock_owner' = "timer"
    /\ timer_pc' = "test"
    /\ tick' = [before |-> value, after |-> value, done |-> FALSE]
    /\ UNCHANGED <<value, cpu_pc, cpu_arg, cpu_ret, timer_tmp, ticks>>

RunTest ==
    /\ timer_pc = "test"
    /\ timer_pc' = IF TickTest(value) THEN "load" ELSE "release"
    /\ UNCHANGED <<value, lock_owner, cpu_pc, cpu_arg, cpu_ret, timer_tmp, tick, ticks>>

RunLoad ==
    /\ timer_pc = "load"
    /\ timer_tmp' = value
    /\ timer_pc' = "store"
    /\ UNCHANGED <<value, lock_owner, cpu_pc, cpu_arg, cpu_ret, tick, ticks>>

\* the store of value -= 1 writing back the value it loaded
RunStoreNoDecrement ==
    /\ timer_pc = "store"
    /\ value' = timer_tmp
    /\ timer_pc' = "release"
    /\ UNCHANGED <<lock_owner, cpu_pc, cpu_arg, cpu_ret, timer_tmp, tick, ticks>>

RunStore ==
    /\ timer_pc = "store"
    /\ value' = timer_tmp - 1
    /\ timer_pc' = "release"
    /\ UNCHANGED <<lock_owner, cpu_pc, cpu_arg, cpu_ret, timer_tmp, tick, ticks>>

RunRelease ==
    /\ timer_pc = "release"
    /\ lock_owner' = "none"
    /\ timer_pc' = "sleep"
    /\ tick' = [tick EXCEPT !.after = value, !.done = TRUE]
    /\ ticks' = IF ticks < MaxTimerValue THEN ticks + 1 ELSE ticks
    /\ UNCHANGED <<value, cpu_pc, cpu_arg, cpu_ret, timer_tmp>>

RunSleep ==
    /\ timer_pc = "sleep"
    /\ timer_pc' = "acquire"
    /\ UNCHANGED <<value, lock_owner, cpu_pc, cpu_arg, cpu_ret, timer_tmp, tick, ticks>>

SetValueAcquire(new_value) ==
    /\ cpu_pc = "idle" /\ lock_owner = "none"
    /\ lock_owner' = "cpu"
    /\ cpu_arg' = new_value
    /\ cpu_pc' = "set_write"
    /\ UNCHANGED <<value, timer_pc, cpu_ret, timer_tmp, tick, ticks>>

SetValueWrite ==
    /\ cpu_pc = "set_write"
    /\ value' = cpu_arg
    /\ cpu_pc' = "set_release"
    /\ ticks' = 0
    /\ UNCHANGED <<lock_owner, timer_pc, cpu_arg, cpu_ret, timer_tmp, tick>>

SetValueRelease ==
    /\ cpu_pc = "set_release"
    /\ lock_owner' = "none"
    /\ cpu_pc' = "idle"
    /\ UNCHANGED <<value, timer_pc, cpu_arg, cpu_ret, timer_tmp, tick, ticks>>

GetValueAcquire ==
    /\ cpu_pc = "idle" /\ lock_owner = "none"
    /\ lock_owner' = "cpu"
    /\ cpu_pc' = "get_read"
    /\ UNCHANGED <<value, timer_pc, cpu_arg, cpu_ret, timer_tmp, tick, ticks>>

GetValueRead ==
    /\ cpu_pc = "get_read"
    /\ cpu_ret' = value
    /\ cpu_pc' = "get_release"
    /\ UNCHANGED <<value, lock_owner, timer_pc, cpu_arg, timer_tmp, tick, ticks>>

GetValueRelease ==
    /\ cpu_pc = "get_release"
    /\ lock_owner' = "none"
    /\ cpu_pc' = "idle"
    /\ UNCHANGED <<value, timer_pc, cpu_arg, cpu_ret, timer_tmp, tick, ticks>>

---------------------------------------------------------------------------
(* The display side of the IOManager of src/iomanager.py.  A sprite is the *)
(* hexadecimal string draw_sprite and check_collission receive.            *)

Columns == 64
Rows == 32

fix_overflowing_coordinates(coord_x, coord_y) == <<coord_x % Columns, coord_y % Rows>>

NibbleBits(c) ==
    LET v == HexVal(c) IN
    << IF (v \div 8) % 2 = 1 THEN "1" ELSE "0", IF (v \div 4) % 2 = 1 THEN "1" ELSE "0",
       IF (v \div 2) % 2 = 1 THEN "1" ELSE "0", IF v % 2 = 1 THEN "1" ELSE "0" >>

\* bin(int(hex_value, 16))[2:].zfill(len(hex_value) * 4)
RECURSIVE hex_to_binary(_)
hex_to_binary(hex_value) ==
    IF hex_value = <<>> THEN <<>>
    ELSE NibbleBits(Head(hex_value)) \o hex_to_binary(Tail(hex_value))

Cells == (0..(Columns - 1)) \X (0..(Rows - 1))

\* display_buffer[y][x] and chr(screen.get_from(x, y)[0])
BufferAt(db, c) == IF c \in db THEN 1 ELSE 0
CharAt(scr, c) == IF c \in scr THEN "X" ELSE " "

\* the loop of draw_sprite from bit `index` on: each cell is computed from the screen
RECURSIVE DrawBits(_, _, _, _, _, _)
DrawBits(db, scr, bits, index, pos_x, pos_y) ==
    IF index > Len(bits) THEN db
    ELSE LET c == fix_overflowing_coordinates(pos_x + (index - 1), pos_y)
             screen_char == CharAt(scr, c)
             xored_bit == IF (bits[index] = "0" /\ screen_char = "X")
                             \/ (bits[index] = "1" /\ screen_char = " ")
                          THEN 1 ELSE 0
         IN  DrawBits(IF xored_bit = 1 THEN db \cup {c} ELSE db \ {c},
                      scr, bits, index + 1, pos_x, pos_y)

draw_sprite(db, scr, sprite, pos_x, pos_y) ==
    DrawBits(db, scr, hex_to_binary(sprite), 1, pos_x, pos_y)

RECURSIVE DisplayedBits(_, _, _, _)
DisplayedBits(scr, index, pos_x, pos_y) ==
    IF index = 8 THEN 0
    ELSE (IF CharAt(scr, fix_overflowing_coordinates(pos_x + index, pos_y)) = "X"
          THEN Pow2(7 - index) ELSE 0)
             + DisplayedBits(scr, index + 1, pos_x, pos_y)

_get_displayed_sprite_at(scr, pos_x, pos_y) == DisplayedBits(scr, 0, pos_x, pos_y)

check_collission(scr, sprite, pos_x, pos_y) ==
    LET c == fix_overflowing_coordinates(pos_x, pos_y) IN
    BitAnd(int_base16(sprite), _get_displayed_sprite_at(scr, c[1], c[2]))

\* every cell of the screen is printed: 'X' where the buffer holds 1, ' ' elsewhere
_draw_screen(db) == {c \in Cells : BufferAt(db, c) = 1}

\* a fresh buffer of zeros
clear_screen == {c \in Cells : FALSE}

InitIO ==
    /\ display_buffer = {}
    /\ screen = {}
    /\ collision = 0
    /\ drawn = <<>>
    /\ tones = <<>>

Blank(scr) == \A c \in Cells : CharAt(scr, c) = " "

Sprites == { <<"f", "f">>, <<"0", "f">> }
Positions == { <<0, 0>>, <<60, 31>>, <<4, 32>> }

(* One iteration of IOManager.main_loop whose instruction draws `sprite`   *)
(* at (pos_x, pos_y): the collision check, the draw, then _draw_screen.    *)
LoopDraw(sprite, pos_x, pos_y) ==
    /\ collision' = check_collission(screen, sprite, pos_x, pos_y)
    /\ display_buffer' = draw_sprite(display_buffer, screen, sprite, pos_x, pos_y)
    /\ screen' = _draw_screen(display_buffer')
    /\ drawn' = SubSeq(<<[sprite |-> sprite, pos_x |-> pos_x, pos_y |-> pos_y,
                          blank |-> Blank(screen), collision |-> collision']>> \o drawn,
                       1, IF Len(drawn) = 0 THEN 1 ELSE 2)
    /\ UNCHANGED <<tones, cpu_vars, timer_vars, buffer_vars>>

\* One iteration of IOManager.main_loop whose instruction clears the screen
LoopClear ==
    /\ display_buffer' = clear_screen
    /\ screen' = _draw_screen(display_buffer')
    /\ drawn' = <<>>
    /\ UNCHANGED <<collision, tones, cpu_vars, timer_vars, buffer_vars>>

---------------------------------------------------------------------------
(* The MemoryBuffer of src/memorybuffer.py.  Its memory is a Python list   *)
(* of strings; a string is a sequence of one-character strings.            *)

fontset ==
    <<"F", "0", "9", "0", "9", "0", "9", "0", "F", "0">> \o
    <<"2", "0", "6", "0", "2", "0", "2", "0", "7", "0">> \o
    <<"F", "0", "1", "0", "F", "0", "8", "0", "F", "0">> \o
    <<"F", "0", "1", "0", "F", "0", "1", "0", "F", "0">> \o
    <<"9", "0", "9", "0", "F", "0", "1", "0", "1", "0">> \o
    <<"F", "0", "8", "0", "F", "0", "1", "0", "F", "0">> \o
    <<"F", "0", "8", "0", "F", "0", "9", "0", "F", "0">> \o
    <<"F", "0", "1", "0", "2", "0", "4", "0", "4", "0">> \o
    <<"F", "0", "9", "0", "F", "0", "9", "0", "F", "0">> \o
    <<"F", "0", "9", "0", "F", "0", "1", "0", "F", "0">> \o
    <<"F", "0", "9", "0", "F", "0", "9", "0", "9", "0">> \o
    <<"E", "0", "9", "0", "E", "0", "9", "0", "E", "0">> \o
    <<"F", "0", "8", "0", "8", "0", "8", "0", "F", "0">> \o
    <<"E", "0", "9", "0", "9", "0", "9", "0", "E", "0">> \o
    <<"F", "0", "8", "0", "F", "0", "8", "0", "F", "0">> \o
    <<"F", "0", "8", "0", "F", "0", "8", "0", "8", "0">>

Zero == <<"0">>

\* a Python list: its length, and its items other than '0' by position
ListOf(items) ==
    [size |-> Len(items),
     cells |-> [k \in {j - 1 : j \in {i \in 1..Len(items) : items[i] # Zero}} |-> items[k + 1]]]

ListGet(l, k) == IF k \in DOMAIN l.cells THEN l.cells[k] ELSE Zero

\* a slice bound as Python reads it: a negative bound counts from the end, then it is clamped
SliceBound(l, k) ==
    LET j == IF k < 0 THEN k + l.size ELSE k IN
    IF j < 0 THEN 0 ELSE IF j > l.size THEN l.size ELSE j

\* l[a:b]
ListSlice(l, a, b) ==
    LET lo == SliceBound(l, a)
        hi == SliceBound(l, b)
    IN  [size |-> IF hi > lo THEN hi - lo ELSE 0,
         cells |-> [k \in {j - lo : j \in {i \in DOMAIN l.cells : lo <= i /\ i < hi}}
                       |-> l.cells[k + lo]]]

\* l[:b] and l[a:]
ListUpTo(l, b) == ListSlice(l, 0, b)
ListFrom(l, a) == ListSlice(l, a, l.size)

\* l1 + l2
ListConcat(l1, l2) ==
    [size |-> l1.size + l2.size,
     cells |-> [k \in DOMAIN l1.cells \cup {j + l1.size : j \in DOMAIN l2.cells}
                   |-> IF k < l1.size THEN l1.cells[k] ELSE l2.cells[k - l1.size]]]

\* ''.join(l)
RECURSIVE Join(_, _)
Join(l, k) == IF k >= l.size THEN <<>> ELSE ListGet(l, k) \o Join(l, k + 1)

\* data[i:i+2] on a string
StrSlice2(data, i) ==
    SubSeq(data, i + 1, IF i + 2 <= Len(data) THEN i + 2 ELSE Len(data))

\* [data[i:i+2] for i in range(0, len(data) // 2, 2)]
Chunks(data) ==
    [k \in 1..(((Len(data) \div 2) + 1) \div 2) |-> StrSlice2(data, 2 * (k - 1))]

\* __setitem__ with a slice subscript
__setitem__(l, start, stop, data) ==
    ListConcat(ListConcat(ListUpTo(l, start), ListOf(Chunks(data))), ListFrom(l, stop))

BufferSize == 4096
FontEnd == 80
ProgramStart == 512

\* MemoryBuffer(program): the memory the constructor leaves
MemoryBuffer__init__(program) ==
    LET memory0 == [size |-> BufferSize, cells |-> <<>>]
        program_size_in_bytes == Len(program) \div 2
        memory1 == __setitem__(memory0, 0, FontEnd, fontset)
    IN  __setitem__(memory1, ProgramStart, ProgramStart + program_size_in_bytes, program)

sprite_memory_space(l) == ListUpTo(l, ProgramStart)

\* list.index(hex_digit): the first position holding an equal item, or ValueError.
\* hex_digit is a string, or an int, which equals no string of the list.
find_sprite_address(l, hex_digit) ==
    LET space == sprite_memory_space(l)
        found == IF hex_digit.kind = "str"
                 THEN {k \in 0..(space.size - 1) : ListGet(space, k) = hex_digit.str}
                 ELSE {}
    IN  IF found = {} THEN [index |-> -1, fault |-> "ValueError"]
        ELSE [index |-> CHOOSE k \in found : \A j \in found : k <= j, fault |-> NoFault]

\* read_data_from_addr: a string address is read in base 16; the slice never raises
read_data_from_addr(l, addr, bytes_to_read) ==
    LET a == IF addr.kind = "str" THEN int_base16(addr.str) ELSE addr.int IN
    [ret |-> Join(ListSlice(l, a, a + bytes_to_read), 0), fault |-> NoFault]

\* _write_data_to_addr: len(data, 2) raises TypeError before the list is assigned
_write_data_to_addr(l, data, addr, bits) == [memory |-> l, fault |-> "TypeError"]

\* an argument that is a Python int, and one that is a Python string
IntArg(n) == [kind |-> "int", int |-> n, str |-> <<>>]
StrArg(str) == [kind |-> "str", int |-> 0, str |-> str]

NoCall ==
    [op |-> "none", arg |-> IntArg(0), bytes |-> 0, data |-> <<>>, ret |-> <<>>,
     index |-> -1, fault |-> NoFault, size_before |-> 0]

\* no MemoryBuffer of src/memorybuffer.py exists until its constructor is called
InitBuffer ==
    /\ buffer_memory = [size |-> 0, cells |-> <<>>]
    /\ buffer_call = NoCall

Programs ==
    { <<>>,
      <<"6", "a", "0", "2">>,
      <<"0", "0", "e", "0", "6", "a", "0", "2">>,
      <<"1", "2", "0", "0", "6", "a", "0", "2", "0", "0", "e", "e">> }

Addresses ==
    {IntArg(n) : n \in {-2, 0, 39, 40, 512, 513, 4054, 4055, 4095, 4096, 4097}}
        \cup {StrArg(<<"2", "0", "0">>), StrArg(<<"f", "f", "f">>),
              StrArg(<<"1", "0", "0", "0">>)}

HexDigits ==
    {IntArg(n) : n \in 0..15}
        \cup {StrArg(<<c>>) : c \in DecChars \cup {"a", "b", "c", "d", "e", "f"}}

Constructed == buffer_call.op # "none"

\* MemoryBuffer(program)
Construct(program) ==
    /\ ~Constructed
    /\ buffer_memory' = MemoryBuffer__init__(program)
    /\ buffer_call' = [NoCall EXCEPT !.op = "__init__", !.data = program]
    /\ UNCHANGED <<cpu_vars, timer_vars, io_vars>>

\* read_byte_from_addr(addr) and read_word_from_addr(addr)
ReadData(addr, bytes_to_read) ==
    /\ Constructed
    /\ LET r == read_data_from_addr(buffer_memory, addr, bytes_to_read) IN
        buffer_call' = [NoCall EXCEPT !.op = "read_data_from_addr", !.arg = addr,
                                      !.bytes = bytes_to_read, !.ret = r.ret,
                                      !.fault = r.fault,
                                      !.size_before = buffer_memory.size]
    /\ UNCHANGED <<buffer_memory, cpu_vars, timer_vars, io_vars>>

\* write_byte_to_addr(data, addr) and write_word_to_addr(data, addr)
WriteData(data, addr, bits) ==
    /\ Constructed
    /\ LET r == _write_data_to_addr(buffer_memory, data, addr, bits) IN
        /\ buffer_memory' = r.memory
        /\ buffer_call' = [NoCall EXCEPT !.op = "_write_data_to_addr", !.arg = addr,
                                         !.bytes = bits, !.data = data, !.fault = r.fault,
                                         !.size_before = buffer_memory.size]
    /\ UNCHANGED <<cpu_vars, timer_vars, io_vars>>

FindSprite(hex_digit) ==
    /\ Constructed
    /\ LET r == find_sprite_address(buffer_memory, hex_digit) IN
        buffer_call' = [NoCall EXCEPT !.op = "find_sprite_address", !.arg = hex_digit,
                                      !.index = r.index, !.fault = r.fault,
                                      !.size_before = buffer_memory.size]
    /\ UNCHANGED <<buffer_memory, cpu_vars, timer_vars, io_vars>>

---------------------------------------------------------------------------
(* Specifications.                                                         *)

Init == InitMachine /\ InitTimer /\ InitIO /\ InitBuffer /\ InitHistory

Next == steps < MaxSteps /\ \E instruction \in Words : Step(instruction)

Spec == Init /\ [][Next]_vars

NextStack == steps < MaxCalls /\ \E instruction \in StackWords : Step(instruction)

SpecStack == Init /\ [][NextStack]_vars

NextTimer ==
    \/ (RunAcquire /\ UNCHANGED <<cpu_vars, io_vars, buffer_vars>>)
    \/ (RunTest /\ UNCHANGED <<cpu_vars, io_vars, buffer_vars>>)
    \/ (RunLoad /\ UNCHANGED <<cpu_vars, io_vars, buffer_vars>>)
    \/ (RunStore /\ UNCHANGED <<cpu_vars, io_vars, buffer_vars>>)
    \/ (RunRelease /\ UNCHANGED <<cpu_vars, io_vars, buffer_vars>>)
    \/ (RunSleep /\ UNCHANGED <<cpu_vars, io_vars, buffer_vars>>)
    \/ (\E new_value \in 0..MaxTimerValue : SetValueAcquire(new_value) /\ UNCHANGED <<cpu_vars, io_vars, buffer_vars>>)
    \/ (SetValueWrite /\ UNCHANGED <<cpu_vars, io_vars, buffer_vars>>)
    \/ (SetValueRelease /\ UNCHANGED <<cpu_vars, io_vars, buffer_vars>>)
    \/ (GetValueAcquire /\ UNCHANGED <<cpu_vars, io_vars, buffer_vars>>)
    \/ (GetValueRead /\ UNCHANGED <<cpu_vars, io_vars, buffer_vars>>)
    \/ (GetValueRelease /\ UNCHANGED <<cpu_vars, io_vars, buffer_vars>>)

SpecTimer == Init /\ [][NextTimer]_vars

(* The timer under fair scheduling.  The timer thread always takes its     *)
(* next step; its acquire of the lock, which the interpreter thread can    *)
(* hold again and again, is granted if it is possible infinitely often.    *)
(* A thread inside set_value or get_value runs on to the release.          *)
TimerFairness ==
    /\ SF_vars(RunAcquire /\ UNCHANGED <<cpu_vars, io_vars, buffer_vars>>)
    /\ WF_vars((RunTest \/ RunLoad \/ RunStore \/ RunRelease \/ RunSleep)
                   /\ UNCHANGED <<cpu_vars, io_vars, buffer_vars>>)
    /\ WF_vars((SetValueWrite \/ SetValueRelease \/ GetValueRead \/ GetValueRelease)
                   /\ UNCHANGED <<cpu_vars, io_vars, buffer_vars>>)

SpecTimerFair == Init /\ [][NextTimer]_vars /\ TimerFairness

NextIO ==
    \/ \E sprite \in Sprites, pos \in Positions : LoopDraw(sprite, pos[1], pos[2])
    \/ LoopClear

SpecIO == Init /\ [][NextIO]_vars

NextMem ==
    \/ \E program \in Programs : Construct(program)
    \/ \E addr \in Addresses, bytes_to_read \in {1, 2} : ReadData(addr, bytes_to_read)
    \/ \E addr \in Addresses, bits \in {1, 2} : WriteData(<<"f", "f">>, addr, bits)
    \/ \E hex_digit \in HexDigits : FindSprite(hex_digit)

SpecMem == Init /\ [][NextMem]_vars

---------------------------------------------------------------------------
(* Vocabulary of the properties.                                           *)

Ran(h) == h.instruction # NoInstruction
\* the register indices an instruction word names, read as hexadecimal digits
OpX(h) == HexVal(h.instruction[2])
OpY(h) == HexVal(h.instruction[3])
IsAlu(h, n) == Ran(h) /\ h.instruction[1] = "8" /\ h.instruction[4] = n
IsCall(h) == Ran(h) /\ h.instruction[1] = "2"
IsRet(h) == Ran(h) /\ h.instruction = <<"0", "0", "e", "e">>
IsLoadByte(h) == Ran(h) /\ h.instruction[1] = "6"
IsF(h, kk) == Ran(h) /\ h.instruction[1] = "f" /\ SubSeq(h.instruction, 3, 4) = kk
\* a register value that is an integer in 0..255
IsByte(v) == ~v.float /\ v.exp = 0 /\ v.num \in 0..255
\* a register value equal to the integer k
Holds(v, k) == PyEq(v, PyInt(k))
\* the number written in binary by the 8 memory characters from addr on
RECURSIVE BitsValue(_, _, _)
BitsValue(mem, addr, bits) ==
    IF bits = 0 \/ addr + bits - 1 >= mem.size THEN 0
    ELSE 2 * BitsValue(mem, addr, bits - 1) + (IF (addr + bits - 1) \in mem.ones THEN 1 ELSE 0)
ByteAt(mem, addr) == BitsValue(mem, addr, 8)

(* C1: after 8xy4 with x # F on registers holding bytes, Vx is the sum     *)
(* modulo 256, VF is 1 when the sum is at least 256 and 0 otherwise.       *)
C1_AddWrapsModulo256 ==
    (IsAlu(last, "4") /\ OpX(last) # 15
        /\ IsByte(last.before.reg_v[OpX(last)]) /\ IsByte(last.before.reg_v[OpY(last)]))
    => LET sum == last.before.reg_v[OpX(last)].num + last.before.reg_v[OpY(last)].num IN
       /\ fault = NoFault
       /\ Holds(reg_v[OpX(last)], sum % 256)
       /\ Holds(reg_v[15], IF sum >= 256 THEN 1 ELSE 0)

(* C2: after 8xy5 with x # F and Vx > Vy before it, VF is 1 and Vx is the  *)
(* difference of the values Vx and Vy held before the instruction,         *)
(* modulo 256; y may be F.                                                 *)
C2_SubUsesOperandsBefore ==
    (IsAlu(last, "5") /\ OpX(last) # 15
        /\ IsByte(last.before.reg_v[OpX(last)]) /\ IsByte(last.before.reg_v[OpY(last)])
        /\ last.before.reg_v[OpX(last)].num > last.before.reg_v[OpY(last)].num)
    => /\ fault = NoFault
       /\ Holds(reg_v[15], 1)
       /\ Holds(reg_v[OpX(last)],
                (last.before.reg_v[OpX(last)].num - last.before.reg_v[OpY(last)].num) % 256)

(* C3: a CALL at a stack depth below 16 raises no fault, whatever its      *)
(* address, and a CALL at address P and depth d followed at once by RET    *)
(* leaves PC = P + 2 and the depth at d.                                   *)
C3_CallThenRetReturnsAfterCall ==
    /\ (IsCall(last) /\ last.before.reg_sp < 16) => fault = NoFault
    /\ (IsCall(prev) /\ prev.before.reg_sp < 16 /\ IsRet(last))
        => /\ fault = NoFault
           /\ reg_pc = prev.before.reg_pc + 2
           /\ reg_sp = prev.before.reg_sp

(* C4: the stack depth never exceeds 16; a CALL to a well-formed address   *)
(* at a depth below 16 succeeds, so 16 nested CALLs succeed, and a CALL at *)
(* depth 16 raises the stack fault.                                        *)
C4_SixteenNestedCalls ==
    /\ reg_sp <= 16
    /\ (IsCall(last) /\ ~int_raises(Tail(last.instruction)) /\ last.before.reg_sp < 16)
        => (fault = NoFault /\ reg_sp = last.before.reg_sp + 1)
    /\ (IsCall(last) /\ last.before.reg_sp = 16) => fault = "Full stack."

(* C5: RET on an empty stack raises the stack fault and assigns nothing to *)
(* PC, in the initial state and after balanced CALL/RET pairs alike.       *)
C5_RetOnEmptyStackFaults ==
    (IsRet(last) /\ last.before.reg_sp = 0)
    => /\ fault = "Empty Stack"
       /\ reg_pc = last.before.reg_pc
       /\ reg_sp = 0

\* an empty-stack RET that follows a CALL and the RET returning from it
C5_Witness ==
    /\ IsRet(last) /\ last.before.reg_sp = 0 /\ fault = "Empty Stack"
    /\ IsRet(prev) /\ prev.before.reg_sp = 1
    /\ steps = 3

(* C6: one cycle on 6xkk at PC = P raises no fault, sets Vx to the byte kk *)
(* read as hexadecimal and leaves PC = P + 2, for every x in 0..F.         *)
C6_LoadByteSetsRegister ==
    IsLoadByte(last)
    => /\ fault = NoFault
       /\ Holds(reg_v[OpX(last)], int_base16(SubSeq(last.instruction, 3, 4)))
       /\ reg_pc = last.before.reg_pc + 2

(* C7: Fx65 with I + x <= 4095 raises no fault, and Fx65 followed by Fx55  *)
(* with the same x and I leaves V0..Vx equal to the bytes that were at     *)
(* I..I+x and leaves those bytes as they were.                             *)
C7_LoadThenStoreRoundTrips ==
    /\ (IsF(last, <<"6", "5">>) /\ last.before.reg_i.num + OpX(last) <= 4095) => fault = NoFault
    /\ (IsF(prev, <<"6", "5">>) /\ IsF(last, <<"5", "5">>) /\ OpX(prev) = OpX(last)
            /\ prev.before.reg_i = last.before.reg_i
            /\ prev.before.reg_i.num + OpX(prev) <= 4095)
        => /\ fault = NoFault
           /\ \A k \in 0..OpX(last) :
                /\ Holds(reg_v[k], ByteAt(prev.before.memory, prev.before.reg_i.num + k))
                /\ ByteAt(memory, prev.before.reg_i.num + k)
                       = ByteAt(prev.before.memory, prev.before.reg_i.num + k)

(* C8: Fx33 with Vx = v, a byte, raises no fault and leaves the hundreds,  *)
(* tens and ones digits of v in the memory bytes at I, I+1 and I+2.        *)
C8_BcdStoresThreeDigits ==
    (IsF(last, <<"3", "3">>) /\ IsByte(last.before.reg_v[OpX(last)]))
    => LET v == last.before.reg_v[OpX(last)].num
           i_addr == last.before.reg_i.num
       IN  /\ fault = NoFault
           /\ ByteAt(memory, i_addr) = v \div 100
           /\ ByteAt(memory, i_addr + 1) = (v \div 10) % 10
           /\ ByteAt(memory, i_addr + 2) = v % 10

\* the 8 cells of the display row that a one-byte sprite drawn at (pos_x, pos_y) covers
RowCells(db, pos_x, pos_y) ==
    [k \in 0..7 |-> BufferAt(db, <<(pos_x + k) % Columns, pos_y % Rows>>)]

(* C9: on a blank screen drawing the row 0xFF sets its 8 pixels and        *)
(* reports collision 0; drawing it again at the same coordinates turns the *)
(* 8 pixels off and reports collision exactly 1.                           *)
C9_DrawTwiceTogglesAndCollides ==
    /\ (Len(drawn) >= 1 /\ drawn[Len(drawn)].blank /\ drawn[Len(drawn)].sprite = <<"f", "f">>
            /\ Len(drawn) = 1)
        => /\ collision = 0
           /\ RowCells(display_buffer, drawn[1].pos_x, drawn[1].pos_y) = [k \in 0..7 |-> 1]
    /\ (Len(drawn) = 2 /\ drawn[2].blank /\ drawn[2].sprite = <<"f", "f">>
            /\ drawn[1].sprite = drawn[2].sprite
            /\ drawn[1].pos_x = drawn[2].pos_x /\ drawn[1].pos_y = drawn[2].pos_y)
        => /\ drawn[2].collision = 0
           /\ collision = 1
           /\ RowCells(display_buffer, drawn[1].pos_x, drawn[1].pos_y) = [k \in 0..7 |-> 0]

(* C10: under every interleaving of set_value (arguments within the        *)
(* bound), get_value and the timer thread, the timer value is an integer   *)
(* in 0..255, and an iteration of the timer thread decrements the value by *)
(* one when it was above 0 and leaves it at 0 otherwise.                   *)
C10_TimerStaysInRange ==
    /\ value \in 0..255
    /\ tick.done => tick.after = (IF tick.before > 0 THEN tick.before - 1 ELSE 0)

\* the timer was set to the largest value, counted down to 0, and ticked once more at 0
C10_Witness ==
    /\ tick.done /\ tick.before = 0 /\ tick.after = 0 /\ value = 0
    /\ cpu_arg = MaxTimerValue /\ cpu_pc = "idle"

(* C11: while no set_value writes, the timer value changes only by a tick  *)
(* that takes it from n > 0 to n - 1; under fair scheduling every value    *)
(* n > 0 is followed by n - 1 unless a set_value intervenes, and once      *)
(* set_value is called no more the value reaches 0 and stays 0.            *)
C11_CountdownReachesZero ==
    /\ [][(value' # value /\ cpu_pc # "set_write") => (value > 0 /\ value' = value - 1)]_vars
    /\ \A n \in 1..MaxTimerValue : (value = n) ~> (value = n - 1 \/ cpu_pc = "set_write")
    /\ (<>[](cpu_pc # "set_write")) => <>[](value = 0)

\* the timer, set to the largest value, has just ticked from 1 to 0
C11_Witness ==
    /\ tick.done /\ tick.before = 1 /\ tick.after = 0 /\ value = 0
    /\ cpu_arg = MaxTimerValue /\ cpu_pc = "idle"

(* C12: the interpreter thread is never inside set_value or get_value      *)
(* while the timer thread is inside its test-and-decrement; a tick stores  *)
(* the decrement of the value that is current at the store; and whenever   *)
(* the lock is free the value is max(0, N - k), N the argument of the last *)
(* set_value and k the ticks completed since it wrote.                     *)
C12_TimerCriticalSections ==
    /\ ~(timer_pc \in {"test", "load", "store", "release"}
          /\ cpu_pc \in {"set_write", "set_release", "get_read", "get_release"})
    /\ timer_pc = "store" => timer_tmp = value
    /\ lock_owner = "none" => value = Max(0, cpu_arg - ticks)

\* two ticks after set_value(MaxTimerValue), with a get_value between them
C12_Witness ==
    /\ lock_owner = "none" /\ cpu_pc = "idle"
    /\ cpu_arg = MaxTimerValue /\ ticks = 2 /\ value = MaxTimerValue - 2
    /\ cpu_ret = MaxTimerValue - 1

\* an instruction word whose opcode and operand are in no row of the decode table
Unrecognised(h) ==
    /\ Ran(h)
    /\ \/ h.instruction[1] = "e"
            /\ int_base16(SubSeq(h.instruction, 3, 4)) \notin {158, 161}
       \/ h.instruction[1] = "f"
            /\ int_base16(SubSeq(h.instruction, 3, 4)) \notin {7, 10, 21, 24, 30, 41, 51, 85, 101}
       \/ h.instruction[1] = "8"
            /\ HexVal(h.instruction[4]) \notin ((0..7) \cup {14})

(* C13: executing a word that is in no row of the decode table raises a    *)
(* fault and leaves every register, I, PC, SP, the stack and the memory as *)
(* they were.                                                              *)
C13_UnknownOpcodeFaults ==
    Unrecognised(last)
    => /\ fault # NoFault
       /\ reg_v = last.before.reg_v /\ reg_i = last.before.reg_i
       /\ reg_pc = last.before.reg_pc /\ reg_sp = last.before.reg_sp
       /\ stack = last.before.stack /\ memory = last.before.memory

\* an unknown F-family word run after a register and I were loaded
C13_Witness ==
    /\ last.instruction = <<"f", "0", "f", "f">> /\ fault = "KeyError"
    /\ Holds(reg_v[0], 5) /\ Holds(reg_i, 752) /\ reg_pc = 516

\* a cell holding the byte 0
IsZeroCell(c) == c \in {<<"0">>, <<"0", "0">>}
\* the k-th byte (from 0) of a string of hexadecimal digits
HexByte(data, k) == SubSeq(data, 2 * k + 1, 2 * k + 2)

(* C14: a constructed memory has 4096 cells, after construction and after  *)
(* every later call; right after construction with a program of p bytes    *)
(* cells 0..79 hold the 80 font bytes in order, cells 512..512+p-1 the     *)
(* program bytes in order, and every other cell holds 0.                   *)
C14_MemoryLayoutAfterConstruction ==
    /\ Constructed => buffer_memory.size = BufferSize
    /\ buffer_call.op = "__init__" =>
         LET p == Len(buffer_call.data) \div 2 IN
         \A k \in 0..(BufferSize - 1) :
            LET c == ListGet(buffer_memory, k) IN
            IF k < FontEnd THEN c = HexByte(fontset, k)
            ELSE IF k >= ProgramStart /\ k < ProgramStart + p
                 THEN c = HexByte(buffer_call.data, k - ProgramStart)
                 ELSE IsZeroCell(c)

\* the digit a find_sprite_address argument stands for
DigitOf(arg) == IF arg.kind = "str" THEN HexVal(arg.str[1]) ELSE arg.int

(* C15: find_sprite_address of a hex digit d, given as an int or as a      *)
(* one-character string, returns 5 * d without a fault; and Fx29 with      *)
(* Vx = d in 0..15 leaves I = 5 * d.                                       *)
C15_FontSpriteAddress ==
    /\ buffer_call.op = "find_sprite_address"
        => (buffer_call.fault = NoFault /\ buffer_call.index = 5 * DigitOf(buffer_call.arg))
    /\ (IsF(last, <<"2", "9">>) /\ IsByte(last.before.reg_v[OpX(last)])
            /\ last.before.reg_v[OpX(last)].num \in 0..15)
        => (fault = NoFault /\ Holds(reg_i, 5 * last.before.reg_v[OpX(last)].num))

\* the address a call accessed
AddressOf(arg) == IF arg.kind = "str" THEN int_base16(arg.str) ELSE arg.int

(* C16: a read or write of 1 or 2 bytes that touches an address outside    *)
(* 0..4095 raises a fault, returns nothing and leaves the memory's size    *)
(* as it was.                                                              *)
C16_OutOfRangeAccessFaults ==
    (buffer_call.op \in {"read_data_from_addr", "_write_data_to_addr"}
        /\ (AddressOf(buffer_call.arg) < 0
            \/ AddressOf(buffer_call.arg) + buffer_call.bytes - 1 > BufferSize - 1))
    => /\ buffer_call.fault # NoFault
       /\ buffer_memory.size = buffer_call.size_before

(* C17: Fx18 with Vx = v, a byte, raises no fault and leaves the sound      *)
(* timer at v; when the timer was 0 and v is not 0 it calls play_tone once *)
(* more, with v, and otherwise it calls play_tone no more.                 *)
C17_LoadSoundTimerPlaysTone ==
    (IsF(last, <<"1", "8">>) /\ IsByte(last.before.reg_v[OpX(last)]))
    => LET v == last.before.reg_v[OpX(last)].num IN
       /\ fault = NoFault
       /\ value = v
       /\ tones = IF last.value = 0 /\ v # 0 THEN Append(last.tones, v) ELSE last.tones

(* C18: after every sequence of instructions every register V0..VF holds   *)
(* a whole number in 0..255.                                               *)
C18_RegistersStayBytes ==
    \A r \in 0..15 : reg_v[r].exp = 0 /\ reg_v[r].num \in 0..255

(* C19: one cycle on 3xkk at PC = P raises no fault, leaves PC = P + 4     *)
(* when Vx equals kk and PC = P + 2 when it does not, and changes no       *)
(* register.                                                               *)
C19_SkipEqualAdvancesByFour ==
    (Ran(last) /\ last.instruction[1] = "3")
    => /\ fault = NoFault
       /\ reg_pc = last.before.reg_pc
                      + (IF Holds(last.before.reg_v[OpX(last)],
                                  int_base16(SubSeq(last.instruction, 3, 4)))
                         THEN 4 ELSE 2)
       /\ reg_v = last.before.reg_v

(* C20: one cycle on 9xy0 at PC = P raises no fault and moves PC past      *)
(* P + 2 exactly when the values of Vx and Vy before it differ.            *)
C20_SkipNotEqualComparesValues ==
    (Ran(last) /\ last.instruction[1] = "9")
    => /\ fault = NoFault
       /\ (reg_pc > last.before.reg_pc + 2)
              <=> ~PyEq(last.before.reg_v[OpX(last)], last.before.reg_v[OpY(last)])

(* C21: after 8xy6 with x # F on registers holding bytes, VF is the lowest *)
(* bit of the value Vy held before and Vx is that value halved, rounded    *)
(* down.                                                                   *)
C21_ShiftRightTakesVy ==
    (IsAlu(last, "6") /\ OpX(last) # 15
        /\ IsByte(last.before.reg_v[OpX(last)]) /\ IsByte(last.before.reg_v[OpY(last)]))
    => /\ fault = NoFault
       /\ Holds(reg_v[15], last.before.reg_v[OpY(last)].num % 2)
       /\ Holds(reg_v[OpX(last)], last.before.reg_v[OpY(last)].num \div 2)

(* C22: after 8xyE with x # F on registers holding bytes, VF is bit 7 of   *)
(* the value Vy held before and Vx is twice that value modulo 256.         *)
C22_ShiftLeftTakesVy ==
    (IsAlu(last, "e") /\ OpX(last) # 15
        /\ IsByte(last.before.reg_v[OpX(last)]) /\ IsByte(last.before.reg_v[OpY(last)]))
    => /\ fault = NoFault
       /\ Holds(reg_v[15], (last.before.reg_v[OpY(last)].num \div 128) % 2)
       /\ Holds(reg_v[OpX(last)], (2 * last.before.reg_v[OpY(last)].num) % 256)

\* the k-th byte from base, bytes being 8 consecutive characters of the memory string
ByteFrom(mem, base, k) == BitsValue(mem, base + 8 * k, 8)

(* C23: Fx55 with I + x <= 4095 and V0..Vx holding bytes raises no fault,  *)
(* leaves the k-th byte from I equal to Vk for every k in 0..x, and leaves *)
(* the rest of the memory and every register as they were.                 *)
C23_StoreRegistersWritesBytes ==
    (IsF(last, <<"5", "5">>) /\ last.before.reg_i.num + OpX(last) <= 4095
        /\ \A k \in 0..OpX(last) : IsByte(last.before.reg_v[k]))
    => LET i_addr == last.before.reg_i.num
           written == i_addr..(i_addr + 8 * (OpX(last) + 1) - 1)
       IN  /\ fault = NoFault
           /\ \A k \in 0..OpX(last) :
                 ByteFrom(memory, i_addr, k) = last.before.reg_v[k].num
           /\ memory.size = last.before.memory.size
           /\ memory.ones \ written = last.before.memory.ones \ written
           /\ reg_v = last.before.reg_v

(* C24: one cycle on 1nnn raises no fault and leaves PC equal to nnn read  *)
(* as a hexadecimal number, for operands with and without the digits a-f.  *)
C24_JumpSetsPCToOperand ==
    (Ran(last) /\ last.instruction[1] = "1")
    => /\ fault = NoFault
       /\ reg_pc = int_base16(Tail(last.instruction))

(* C25: Fx15 followed at once by Fy07, with no tick of the timer between   *)
(* them, raises no fault and leaves Vy equal to the byte Vx held at Fx15.  *)
C25_DelayTimerRoundTrips ==
    (IsF(prev, <<"1", "5">>) /\ IsF(last, <<"0", "7">>)
        /\ IsByte(prev.before.reg_v[OpX(prev)]))
    => /\ fault = NoFault
       /\ Holds(reg_v[OpX(last)], prev.before.reg_v[OpX(prev)].num)

\* the faults raised while a word is decoded: by a table lookup or by reading an operand
DecodeFaults == {"KeyError", "ValueError", "ExXX instruction not recognised."}

(* C26: executing a word that is in a row of the decode table raises no    *)
(* decode fault, whatever hexadecimal digits its operand holds.            *)
C26_TableWordsDecode ==
    (Ran(last) /\ ~Unrecognised(last)) => fault \notin DecodeFaults

(* C27: a CALL or RET that raises the stack fault leaves PC, SP, every     *)
(* stack slot, every register, I and the memory as they were before it.    *)
C27_StackFaultChangesNothing ==
    ((IsCall(last) \/ IsRet(last)) /\ fault \in {"Full stack.", "Empty Stack"})
    => /\ reg_pc = last.before.reg_pc /\ reg_sp = last.before.reg_sp
       /\ stack = last.before.stack
       /\ reg_v = last.before.reg_v /\ reg_i = last.before.reg_i
       /\ memory = last.before.memory

\* a CALL refused on the full stack, every usable slot holding a return address
C27_Witness ==
    /\ IsCall(last) /\ fault = "Full stack." /\ reg_sp = 15
    /\ \A k \in 1..15 : stack[k] # 0

=============================================================================
